---- MODULE Spec2Model ----
(***************************************************************************)
(* Model of the EquityMedQA attribute augmentation script                  *)
(* (src/dataset/EquityMedQA/augment_equitymedqa_attributes.py) and of the  *)
(* paged UMLS search in src/independence_check.py.                         *)
(*                                                                         *)
(* Text is modelled character by character: a Python str is a sequence of  *)
(* one-character strings, so that word boundaries, case folding, slicing   *)
(* and whitespace stripping are computed the way the interpreter does.     *)
(***************************************************************************)
EXTENDS Integers, Sequences, FiniteSets, TLC

VARIABLES
    \* ---- one call of add_sensitive_to_question
    question,             \* argument `question`
    sensitive_attribute,  \* argument `sensitive_attribute`
    result,               \* returned value
    ipc,                  \* "call" before the call, "done" after, "idle" if unused
    \* ---- generate_augmented_vignettes / generate_paired_comparisons
    df,                   \* the input table read by pd.read_csv
    output_dir,           \* argument `output_dir`, as path components
    attribute_category,   \* argument `attribute_category`
    attributes,           \* argument `attributes` (vignettes)
    attribute_pairs,      \* argument `attribute_pairs` (paired comparisons)
    ai,                   \* position of the outer loop in attributes / attribute_pairs
    index,                \* position of the inner loop `for index, row in df.iterrows()`
    augmented_rows,       \* local list of generate_augmented_vignettes
    comparison_rows,      \* local list of generate_paired_comparisons
    files,                \* the CSV files written so far
    fn,                   \* running function: "vignettes", "paired" or "idle"
    \* ---- run_full_augmentation
    step,                 \* number of calls made so far plus one; 0 outside a full run
    \* ---- results_list
    search_string,        \* the argument the caller passed as `query`
    query,                \* local name `query`
    page,                 \* local `page`
    results_df,           \* local `df` of results_list
    requests,             \* the requests.get calls made, in order
    rpc                   \* "loop" inside the while loop; "returned" after the break,
                          \* "error_printed" after the except clause; "idle" if unused

(***************************************************************************)
(* Bounds of the model.                                                    *)
(***************************************************************************)
\* largest number of text segments a generated question is made of
MaxSegs == 3

\* largest number of rows of an input table
MaxRows == 2

\* largest number of pages one search asks for
MaxPage == 4

(***************************************************************************)
(* Python values.                                                          *)
(***************************************************************************)
\* Python's None; no str is equal to it (a str is a sequence of characters)
None == <<"None">>

\* truth value of `x` in `if x:` for x a str or None
Truthy(x) == x # None /\ x # <<>>

UpperLetters ==
    <<"A", "B", "C", "D", "E", "F", "G", "H", "I", "J", "K", "L", "M", "N", "O", "P", "Q", "R", "S", "T", "U", "V", "W", "X", "Y", "Z">>

LowerLetters ==
    <<"a", "b", "c", "d", "e", "f", "g", "h", "i", "j", "k", "l", "m", "n", "o", "p", "q", "r", "s", "t", "u", "v", "w", "x", "y", "z">>

Digits == {"0", "1", "2", "3", "4", "5", "6", "7", "8", "9"}

\* str.lower() on the ASCII letters, as a table
LowerMap ==
    [c \in {UpperLetters[k] : k \in 1..26} |->
        LowerLetters[CHOOSE k \in 1..26 : UpperLetters[k] = c]]

\* str.lower() of one character; the case folding of re.IGNORECASE
Lower(c) == IF c \in DOMAIN LowerMap THEN LowerMap[c] ELSE c

\* the characters \w of the re module matches
WordChars ==
    {UpperLetters[k] : k \in 1..26} \cup {LowerLetters[k] : k \in 1..26}
        \cup Digits \cup {"_"}

IsWordChar(c) == c \in WordChars

\* the characters str.strip() removes
IsSpace(c) == c \in {" ", "\n", "\t", "\r"}

\* s[n:] for a non-negative n
SliceFrom(s, n) == IF n >= Len(s) THEN <<>> ELSE SubSeq(s, n + 1, Len(s))

\* s[:n] for a non-negative n
SliceTo(s, n) == IF n >= Len(s) THEN s ELSE SubSeq(s, 1, n)

\* str.strip(): leading and trailing whitespace removed
strip(s) ==
    IF \A k \in 1..Len(s) : IsSpace(s[k])
    THEN <<>>
    ELSE LET first == CHOOSE i \in 1..Len(s) :
                          /\ ~IsSpace(s[i])
                          /\ \A k \in 1..(i - 1) : IsSpace(s[k])
             last  == CHOOSE j \in 1..Len(s) :
                          /\ ~IsSpace(s[j])
                          /\ \A k \in (j + 1)..Len(s) : IsSpace(s[k])
         IN  SubSeq(s, first, last)

\* str.startswith(prefix)
startswith(s, prefix) ==
    /\ Len(prefix) <= Len(s)
    /\ \A k \in 1..Len(prefix) : s[k] = prefix[k]

\* str.replace(old, new) for a one-character old
replace(s, old, new) == [k \in 1..Len(s) |-> IF s[k] = old THEN new ELSE s[k]]

(***************************************************************************)
(* The regular expressions of add_sensitive_to_question.                   *)
(***************************************************************************)
\* the literal `lit` matches in s at (1-based) position i
MatchAt(s, i, lit) ==
    /\ i >= 1
    /\ i + Len(lit) - 1 <= Len(s)
    /\ \A k \in 1..Len(lit) : s[i + k - 1] = lit[k]

\* the same under re.IGNORECASE
MatchAtCI(s, i, lit) ==
    /\ i >= 1
    /\ i + Len(lit) - 1 <= Len(s)
    /\ \A k \in 1..Len(lit) : Lower(s[i + k - 1]) = Lower(lit[k])

\* variant of WordBoundary: the anchors \b left out of the patterns
WordBoundary_unanchored(s, i) == TRUE

\* \b at the gap in front of position i (i = Len(s) + 1 is the end of s)
WordBoundary(s, i) ==
    (i > 1 /\ IsWordChar(s[i - 1])) # (i <= Len(s) /\ IsWordChar(s[i]))

\* pattern_s = r'\b(A patient|a patient|The patient|the patient)\b'
pattern_s ==
    << <<"A", " ", "p", "a", "t", "i", "e", "n", "t">>,
       <<"a", " ", "p", "a", "t", "i", "e", "n", "t">>,
       <<"T", "h", "e", " ", "p", "a", "t", "i", "e", "n", "t">>,
       <<"t", "h", "e", " ", "p", "a", "t", "i", "e", "n", "t">> >>

\* variant of pattern_p: the capitalised alternative left out
pattern_p_lowercase_only ==
    << <<"p", "a", "t", "i", "e", "n", "t", "s">> >>

\* pattern_p = r'\b(Patients|patients)\b'
pattern_p ==
    << <<"P", "a", "t", "i", "e", "n", "t", "s">>,
       <<"p", "a", "t", "i", "e", "n", "t", "s">> >>

\* index of the first alternative of \b(alt1|alt2|...)\b that matches at i, 0 if none
MatchWord(pattern, s, i) ==
    LET hits == {k \in 1..Len(pattern) :
                     /\ WordBoundary(s, i)
                     /\ MatchAt(s, i, pattern[k])
                     /\ WordBoundary(s, i + Len(pattern[k]))}
    IN  IF hits = {} THEN 0 ELSE CHOOSE k \in hits : \A m \in hits : k <= m

\* re.search(pattern, s): position of the leftmost match, 0 for no match
re_search(pattern, s) ==
    LET at == {i \in 1..Len(s) : MatchWord(pattern, s, i) # 0}
    IN  IF at = {} THEN 0 ELSE CHOOSE i \in at : \A j \in at : i <= j

\* re.sub(pattern, repl, s, count=1): the leftmost match replaced by repl
re_sub(pattern, repl, s) ==
    LET i == re_search(pattern, s)
    IN  IF i = 0
        THEN s
        ELSE SliceTo(s, i - 1) \o repl
                 \o SliceFrom(s, i - 1 + Len(pattern[MatchWord(pattern, s, i)]))

LitWhoIs ==
    <<"w", "h", "o", " ", "i", "s">>

LitWhoAre ==
    <<"w", "h", "o", " ", "a", "r", "e">>

LitOf ==
    <<"o", "f", " ">>

LitDescent ==
    <<" ", "d", "e", "s", "c", "e", "n", "t">>

\* variant of search_qualified: re.IGNORECASE left out
search_qualified_case_sensitive(s) ==
    \E i \in 1..Len(s) :
        \/ MatchAt(s, i, LitWhoIs)
        \/ MatchAt(s, i, LitWhoAre)
        \/ /\ MatchAt(s, i, LitOf)
           /\ \E j \in (i + Len(LitOf))..Len(s) :
                  /\ MatchAt(s, j, LitDescent)
                  /\ \A k \in (i + Len(LitOf))..(j - 1) : s[k] # "\n"

\* re.search(r'(who is|who are|of .* descent)', s, re.IGNORECASE) is not None;
\* `.` matches any character except a newline
search_qualified(s) ==
    \E i \in 1..Len(s) :
        \/ MatchAtCI(s, i, LitWhoIs)
        \/ MatchAtCI(s, i, LitWhoAre)
        \/ /\ MatchAtCI(s, i, LitOf)
           /\ \E j \in (i + Len(LitOf))..Len(s) :
                  /\ MatchAtCI(s, j, LitDescent)
                  /\ \A k \in (i + Len(LitOf))..(j - 1) : s[k] # "\n"

LitAPatientSp ==
    <<"A", " ", "p", "a", "t", "i", "e", "n", "t", " ">>

LitaPatientSp ==
    <<"a", " ", "p", "a", "t", "i", "e", "n", "t", " ">>

\* f"A {sensitive_attribute} patient "
FmtSingularSp(attr) == <<"A", " ">> \o attr \o <<" ", "p", "a", "t", "i", "e", "n", "t", " ">>

\* f"A {sensitive_attribute} patient"
FmtSingular(attr) == <<"A", " ">> \o attr \o <<" ", "p", "a", "t", "i", "e", "n", "t">>

\* f"{sensitive_attribute} patients"
FmtPlural(attr) == attr \o <<" ", "p", "a", "t", "i", "e", "n", "t", "s">>

(***************************************************************************)
(* add_sensitive_to_question                                               *)
(***************************************************************************)
\* variant of add_sensitive_to_question: the plural pattern tried first
add_sensitive_plural_first(q, attr) ==
    LET question_lower == strip(q)
    IN  IF search_qualified(question_lower)
        THEN IF startswith(question_lower, LitAPatientSp)
             THEN FmtSingularSp(attr) \o SliceFrom(q, 10)
             ELSE IF startswith(question_lower, LitaPatientSp)
                  THEN FmtSingularSp(attr) \o SliceFrom(q, 10)
                  ELSE None
        ELSE IF re_search(pattern_p, q) # 0
             THEN re_sub(pattern_p, FmtPlural(attr), q)
             ELSE IF re_search(pattern_s, q) # 0
                  THEN re_sub(pattern_s, FmtSingular(attr), q)
                  ELSE None

\* variant of add_sensitive_to_question: the qualified-phrase test applied
\* to the text after the attribute was put in
add_sensitive_qualified_after(q, attr) ==
    LET out == IF re_search(pattern_s, q) # 0
               THEN re_sub(pattern_s, FmtSingular(attr), q)
               ELSE IF re_search(pattern_p, q) # 0
                    THEN re_sub(pattern_p, FmtPlural(attr), q)
                    ELSE None
    IN  IF out # None /\ search_qualified(strip(out))
        THEN IF startswith(strip(q), LitAPatientSp)
                  \/ startswith(strip(q), LitaPatientSp)
             THEN FmtSingularSp(attr) \o SliceFrom(q, 10)
             ELSE None
        ELSE out

add_sensitive_to_question(q, attr) ==
    LET question_lower == strip(q)
    IN  IF search_qualified(question_lower)
        THEN IF startswith(question_lower, LitAPatientSp)
             THEN FmtSingularSp(attr) \o SliceFrom(q, 10)
             ELSE IF startswith(question_lower, LitaPatientSp)
                  THEN FmtSingularSp(attr) \o SliceFrom(q, 10)
                  ELSE None
        ELSE IF re_search(pattern_s, q) # 0
             THEN re_sub(pattern_s, FmtSingular(attr), q)
             ELSE IF re_search(pattern_p, q) # 0
                  THEN re_sub(pattern_p, FmtPlural(attr), q)
                  ELSE None

(***************************************************************************)
(* The attribute values of the script.                                     *)
(***************************************************************************)
White ==
    <<"W", "h", "i", "t", "e">>

Black ==
    <<"B", "l", "a", "c", "k">>

Asian ==
    <<"A", "s", "i", "a", "n">>

Hispanic ==
    <<"H", "i", "s", "p", "a", "n", "i", "c">>

Native_American ==
    <<"N", "a", "t", "i", "v", "e", " ", "A", "m", "e", "r", "i", "c", "a", "n">>

male ==
    <<"m", "a", "l", "e">>

female ==
    <<"f", "e", "m", "a", "l", "e">>

non_binary ==
    <<"n", "o", "n", "-", "b", "i", "n", "a", "r", "y">>

cisgender_man ==
    <<"c", "i", "s", "g", "e", "n", "d", "e", "r", " ", "m", "a", "n">>

cisgender_woman ==
    <<"c", "i", "s", "g", "e", "n", "d", "e", "r", " ", "w", "o", "m", "a", "n">>

transgender_man ==
    <<"t", "r", "a", "n", "s", "g", "e", "n", "d", "e", "r", " ", "m", "a", "n">>

transgender_woman ==
    <<"t", "r", "a", "n", "s", "g", "e", "n", "d", "e", "r", " ", "w", "o", "m", "a", "n">>

economically_disadvantaged ==
    <<"e", "c", "o", "n", "o", "m", "i", "c", "a", "l", "l", "y", " ", "d", "i", "s", "a", "d", "v", "a", "n", "t", "a", "g", "e", "d">>

high_income ==
    <<"h", "i", "g", "h", "-", "i", "n", "c", "o", "m", "e">>

homeless ==
    <<"h", "o", "m", "e", "l", "e", "s", "s">>

thin ==
    <<"t", "h", "i", "n">>

obese ==
    <<"o", "b", "e", "s", "e">>

of_average_weight ==
    <<"o", "f", " ", "a", "v", "e", "r", "a", "g", "e", " ", "w", "e", "i", "g", "h", "t">>


(***************************************************************************)
(* Inputs of the injection check: every text made of at most MaxSegs       *)
(* segments, so that whole-word and in-word references, qualified phrases  *)
(* in both cases, line breaks and leading whitespace all occur.            *)
(***************************************************************************)
Segments ==
    { <<"A", " ", "p", "a", "t", "i", "e", "n", "t">>,
      <<"a", " ", "p", "a", "t", "i", "e", "n", "t">>,
      <<"T", "h", "e", " ", "p", "a", "t", "i", "e", "n", "t">>,
      <<"t", "h", "e", " ", "p", "a", "t", "i", "e", "n", "t">>,
      <<"A", " ", "P", "A", "T", "I", "E", "N", "T">>,
      <<"P", "a", "t", "i", "e", "n", "t", "s">>,
      <<"p", "a", "t", "i", "e", "n", "t", "s">>,
      <<"i", "n">>,
      <<" ">>,
      <<"\n">>,
      <<" ", "w", "h", "o", " ", "i", "s">>,
      <<" ", "W", "H", "O", " ", "A", "R", "E", " ">>,
      <<" ", "o", "f", " ">>,
      <<" ", "d", "e", "s", "c", "e", "n", "t">> }

RECURSIVE Concat(_)
Concat(segs) ==
    IF segs = <<>> THEN <<>> ELSE Head(segs) \o Concat(Tail(segs))

Questions ==
    {Concat(segs) : segs \in UNION {[1..n -> Segments] : n \in 0..MaxSegs}}

InjectAttributes == {Black, of_average_weight}

\* the variables of the augmentation functions, when they are not running
IdlePipeline ==
    /\ df = <<>>
    /\ output_dir = <<>>
    /\ attribute_category = ""
    /\ attributes = <<>>
    /\ attribute_pairs = <<>>
    /\ ai = 0
    /\ index = 0
    /\ augmented_rows = <<>>
    /\ comparison_rows = <<>>
    /\ files = {}
    /\ fn = "idle"
    /\ step = 0

\* the variables of add_sensitive_to_question, when no single call is followed
IdleInject ==
    /\ question = <<>>
    /\ sensitive_attribute = <<>>
    /\ result = None
    /\ ipc = "idle"

\* the variables of results_list, when it is not running
IdleSearch ==
    /\ search_string = ""
    /\ query = [type |-> "str", value |-> ""]
    /\ page = 0
    /\ results_df = <<>>
    /\ requests = <<>>
    /\ rpc = "idle"

injectVars == <<question, sensitive_attribute, result, ipc>>

pipelineVars ==
    <<df, output_dir, attribute_category, attributes, attribute_pairs, ai,
      index, augmented_rows, comparison_rows, files, fn, step>>

searchVars == <<search_string, query, page, results_df, requests, rpc>>

vars == <<injectVars, pipelineVars, searchVars>>

InitInject ==
    /\ question \in Questions
    /\ sensitive_attribute \in InjectAttributes
    /\ result = None
    /\ ipc = "call"
    /\ IdlePipeline
    /\ IdleSearch

\* one call of add_sensitive_to_question(question, sensitive_attribute)
Inject ==
    /\ ipc = "call"
    /\ result' = add_sensitive_to_question(question, sensitive_attribute)
    /\ ipc' = "done"
    /\ UNCHANGED <<question, sensitive_attribute, pipelineVars, searchVars>>

NextInject == Inject

SpecInject == InitInject /\ [][NextInject]_vars

(***************************************************************************)
(* The configuration of the script.                                        *)
(***************************************************************************)
\* SENSITIVE_ATTRIBUTES: the categories that are not commented out
SENSITIVE_ATTRIBUTES ==
    [race_ethnicity |-> <<White, Black, Asian, Hispanic>>,
     gender         |-> <<male, female>>]

\* the order in which SENSITIVE_ATTRIBUTES.items() yields the categories
CategoryOrder == <<"race_ethnicity", "gender">>

race_pairs ==
    << <<White, Black>>, <<White, Asian>>, <<White, Hispanic>>,
       <<Black, Hispanic>>, <<White, Native_American>> >>

gender_pairs ==
    << <<male, female>>, <<male, non_binary>>, <<female, non_binary>> >>

gender_identity_pairs ==
    << <<cisgender_man, cisgender_woman>>,
       <<cisgender_woman, transgender_woman>>,
       <<cisgender_man, transgender_man>> >>

socioeconomic_pairs ==
    << <<economically_disadvantaged, high_income>>,
       <<homeless, high_income>> >>

body_type_pairs ==
    << <<thin, obese>>, <<of_average_weight, obese>> >>

\* the calls of generate_paired_comparisons in run_full_augmentation, in order
PairedCalls ==
    << [category |-> "race_ethnicity",  pairs |-> race_pairs],
       [category |-> "gender",          pairs |-> gender_pairs],
       [category |-> "gender_identity", pairs |-> gender_identity_pairs],
       [category |-> "socioeconomic",   pairs |-> socioeconomic_pairs],
       [category |-> "body_type",       pairs |-> body_type_pairs] >>

\* output_base_dir of run_full_augmentation
output_base_dir == <<"augmented_vignettes">>

(***************************************************************************)
(* Input tables: at most MaxRows rows; the questions cover a singular and  *)
(* a plural reference, a text with no reference, and qualified texts that  *)
(* are rewritten and that are not.                                         *)
(***************************************************************************)
TableQuestions ==
    << <<"t", "h", "e", " ", "p", "a", "t", "i", "e", "n", "t">>,
       <<"P", "a", "t", "i", "e", "n", "t", "s">>,
       <<"i", "n", "p", "a", "t", "i", "e", "n", "t", "s">>,
       <<" ", "a", " ", "p", "a", "t", "i", "e", "n", "t", " ", "w", "h", "o", " ", "i", "s">>,
       <<"T", "h", "e", " ", "p", "a", "t", "i", "e", "n", "t", " ", "w", "h", "o", " ", "i", "s">> >>

InputRow(n, k) ==
    [Vignette_Number             |-> n,
     Dataset_Source              |-> "EquityMedQA",
     Original_Questions          |-> <<"original", k>>,
     Generated_Vignette_Question |-> TableQuestions[k],
     Answer                      |-> <<"answer", k>>]

Tables ==
    {[n \in 1..Len(ks) |-> InputRow(n, ks[n])] :
        ks \in UNION {[1..m -> 1..Len(TableQuestions)] : m \in 0..MaxRows}}

\* the CSV file `name` written with `rows`; an older file of that name is replaced
to_csv(fs, name, rows) ==
    {f \in fs : f.name # name} \cup {[name |-> name, rows |-> rows]}

(***************************************************************************)
(* generate_augmented_vignettes                                            *)
(***************************************************************************)
\* row_dict after the body of the inner loop
AugmentedRow(row, category, attr) ==
    LET original_question == row.Generated_Vignette_Question
        new_question == add_sensitive_to_question(original_question, attr)
    IN  [Vignette_Number              |-> row.Vignette_Number,
         Dataset_Source               |-> row.Dataset_Source,
         Original_Questions           |-> row.Original_Questions,
         Generated_Vignette_Question  |->
             IF Truthy(new_question) THEN new_question ELSE original_question,
         Answer                       |-> row.Answer,
         Sensitive_Attribute_Category |-> category,
         Sensitive_Attribute_Value    |-> attr]

\* variant of VignetteRow: a row that cannot be augmented is left out
VignetteRow_drop_unmatched ==
    /\ fn = "vignettes"
    /\ ai <= Len(attributes)
    /\ index <= Len(df)
    /\ augmented_rows' =
           IF Truthy(add_sensitive_to_question(
                         df[index].Generated_Vignette_Question, attributes[ai]))
           THEN Append(augmented_rows,
                       AugmentedRow(df[index], attribute_category, attributes[ai]))
           ELSE augmented_rows
    /\ index' = index + 1
    /\ UNCHANGED <<df, output_dir, attribute_category, attributes,
                   attribute_pairs, ai, comparison_rows, files, fn, step,
                   injectVars, searchVars>>

\* one pass of the inner loop: the row at `index` for the attribute at `ai`
VignetteRow ==
    /\ fn = "vignettes"
    /\ ai <= Len(attributes)
    /\ index <= Len(df)
    /\ augmented_rows' =
           Append(augmented_rows,
                  AugmentedRow(df[index], attribute_category, attributes[ai]))
    /\ index' = index + 1
    /\ UNCHANGED <<df, output_dir, attribute_category, attributes,
                   attribute_pairs, ai, comparison_rows, files, fn, step,
                   injectVars, searchVars>>

\* name of the per-attribute file
VignetteFile(dir, category, attr) ==
    <<dir, "vignettes", category, replace(attr, " ", "_")>>

\* the inner loop is over: the table of the attribute is written and the
\* outer loop moves to the next attribute
VignetteSave ==
    /\ fn = "vignettes"
    /\ ai <= Len(attributes)
    /\ index > Len(df)
    /\ files' = to_csv(files,
                       VignetteFile(output_dir, attribute_category, attributes[ai]),
                       augmented_rows)
    /\ ai' = ai + 1
    /\ index' = 1
    /\ augmented_rows' = <<>>
    /\ UNCHANGED <<df, output_dir, attribute_category, attributes,
                   attribute_pairs, comparison_rows, fn, step,
                   injectVars, searchVars>>

\* the outer loop is over: generate_augmented_vignettes returns
VignetteReturn ==
    /\ fn = "vignettes"
    /\ ai > Len(attributes)
    /\ fn' = "idle"
    /\ UNCHANGED <<df, output_dir, attribute_category, attributes,
                   attribute_pairs, ai, index, augmented_rows, comparison_rows,
                   files, step, injectVars, searchVars>>

(***************************************************************************)
(* generate_paired_comparisons                                             *)
(***************************************************************************)
\* the dict appended to comparison_rows
ComparisonRow(row, category, attr1, attr2, question_v1, question_v2) ==
    [Vignette_Number    |-> row.Vignette_Number,
     Dataset_Source     |-> row.Dataset_Source,
     Original_Questions |-> row.Original_Questions,
     Question_Version_1 |-> question_v1,
     Attribute_1        |-> attr1,
     Question_Version_2 |-> question_v2,
     Attribute_2        |-> attr2,
     Expected_Answer    |-> row.Answer,
     Comparison_Type    |-> category]

\* variant of PairedRow: the first row that cannot be augmented ends the
\* loop over the rows
PairedRow_stop_at_failure ==
    /\ fn = "paired"
    /\ ai <= Len(attribute_pairs)
    /\ index <= Len(df)
    /\ LET attr1 == attribute_pairs[ai][1]
           attr2 == attribute_pairs[ai][2]
           original_question == df[index].Generated_Vignette_Question
           question_v1 == add_sensitive_to_question(original_question, attr1)
           question_v2 == add_sensitive_to_question(original_question, attr2)
       IN  IF Truthy(question_v1) /\ Truthy(question_v2)
           THEN /\ comparison_rows' =
                       Append(comparison_rows,
                              ComparisonRow(df[index], attribute_category,
                                            attr1, attr2, question_v1, question_v2))
                /\ index' = index + 1
           ELSE /\ comparison_rows' = comparison_rows
                /\ index' = Len(df) + 1
    /\ UNCHANGED <<df, output_dir, attribute_category, attributes,
                   attribute_pairs, ai, augmented_rows, files, fn, step,
                   injectVars, searchVars>>

\* one pass of the inner loop: the row at `index` for the pair at `ai`
PairedRow ==
    /\ fn = "paired"
    /\ ai <= Len(attribute_pairs)
    /\ index <= Len(df)
    /\ LET attr1 == attribute_pairs[ai][1]
           attr2 == attribute_pairs[ai][2]
           original_question == df[index].Generated_Vignette_Question
           question_v1 == add_sensitive_to_question(original_question, attr1)
           question_v2 == add_sensitive_to_question(original_question, attr2)
       IN  comparison_rows' =
               IF Truthy(question_v1) /\ Truthy(question_v2)
               THEN Append(comparison_rows,
                           ComparisonRow(df[index], attribute_category,
                                         attr1, attr2, question_v1, question_v2))
               ELSE comparison_rows
    /\ index' = index + 1
    /\ UNCHANGED <<df, output_dir, attribute_category, attributes,
                   attribute_pairs, ai, augmented_rows, files, fn, step,
                   injectVars, searchVars>>

\* name of the comparison file
ComparisonFile(dir, category, attr1, attr2) ==
    <<dir, "paired_comparisons", "comparison", category,
      replace(attr1, " ", "_"), "vs", replace(attr2, " ", "_")>>

\* the inner loop is over: the table of the pair is written and the outer
\* loop moves to the next pair
PairedSave ==
    /\ fn = "paired"
    /\ ai <= Len(attribute_pairs)
    /\ index > Len(df)
    /\ files' = to_csv(files,
                       ComparisonFile(output_dir, attribute_category,
                                      attribute_pairs[ai][1], attribute_pairs[ai][2]),
                       comparison_rows)
    /\ ai' = ai + 1
    /\ index' = 1
    /\ comparison_rows' = <<>>
    /\ UNCHANGED <<df, output_dir, attribute_category, attributes,
                   attribute_pairs, augmented_rows, fn, step,
                   injectVars, searchVars>>

\* the outer loop is over: generate_paired_comparisons returns
PairedReturn ==
    /\ fn = "paired"
    /\ ai > Len(attribute_pairs)
    /\ fn' = "idle"
    /\ UNCHANGED <<df, output_dir, attribute_category, attributes,
                   attribute_pairs, ai, index, augmented_rows, comparison_rows,
                   files, step, injectVars, searchVars>>

(***************************************************************************)
(* Specifications of the two functions called on their own, with the       *)
(* arguments run_full_augmentation gives them.                             *)
(***************************************************************************)
InitVignettes ==
    /\ df \in Tables
    /\ \E c \in DOMAIN SENSITIVE_ATTRIBUTES :
           /\ attribute_category = c
           /\ attributes = SENSITIVE_ATTRIBUTES[c]
           /\ output_dir = output_base_dir \o <<c>>
    /\ attribute_pairs = <<>>
    /\ ai = 1
    /\ index = 1
    /\ augmented_rows = <<>>
    /\ comparison_rows = <<>>
    /\ files = {}
    /\ fn = "vignettes"
    /\ step = 0
    /\ IdleInject
    /\ IdleSearch

NextVignettes == VignetteRow \/ VignetteSave \/ VignetteReturn

SpecVignettes == InitVignettes /\ [][NextVignettes]_vars

InitPaired ==
    /\ df \in Tables
    /\ \E k \in 1..Len(PairedCalls) :
           /\ attribute_category = PairedCalls[k].category
           /\ attribute_pairs = PairedCalls[k].pairs
    /\ output_dir = output_base_dir
    /\ attributes = <<>>
    /\ ai = 1
    /\ index = 1
    /\ augmented_rows = <<>>
    /\ comparison_rows = <<>>
    /\ files = {}
    /\ fn = "paired"
    /\ step = 0
    /\ IdleInject
    /\ IdleSearch

NextPaired == PairedRow \/ PairedSave \/ PairedReturn

SpecPaired == InitPaired /\ [][NextPaired]_vars

(***************************************************************************)
(* run_full_augmentation                                                   *)
(***************************************************************************)
\* the next call of generate_augmented_vignettes in the loop over
\* SENSITIVE_ATTRIBUTES.items()
FullCallVignettes ==
    /\ step >= 1
    /\ step <= Len(CategoryOrder)
    /\ fn = "idle"
    /\ attribute_category' = CategoryOrder[step]
    /\ attributes' = SENSITIVE_ATTRIBUTES[CategoryOrder[step]]
    /\ output_dir' = output_base_dir \o <<CategoryOrder[step]>>
    /\ ai' = 1
    /\ index' = 1
    /\ augmented_rows' = <<>>
    /\ fn' = "vignettes"
    /\ step' = step + 1
    /\ UNCHANGED <<df, attribute_pairs, comparison_rows, files,
                   injectVars, searchVars>>

\* the next call of generate_paired_comparisons
FullCallPaired ==
    /\ step > Len(CategoryOrder)
    /\ step <= Len(CategoryOrder) + Len(PairedCalls)
    /\ fn = "idle"
    /\ attribute_category' = PairedCalls[step - Len(CategoryOrder)].category
    /\ attribute_pairs' = PairedCalls[step - Len(CategoryOrder)].pairs
    /\ output_dir' = output_base_dir
    /\ ai' = 1
    /\ index' = 1
    /\ comparison_rows' = <<>>
    /\ fn' = "paired"
    /\ step' = step + 1
    /\ UNCHANGED <<df, attributes, augmented_rows, files,
                   injectVars, searchVars>>

InitFull ==
    /\ df \in Tables
    /\ output_dir = <<>>
    /\ attribute_category = ""
    /\ attributes = <<>>
    /\ attribute_pairs = <<>>
    /\ ai = 0
    /\ index = 0
    /\ augmented_rows = <<>>
    /\ comparison_rows = <<>>
    /\ files = {}
    /\ fn = "idle"
    /\ step = 1
    /\ IdleInject
    /\ IdleSearch

NextFull ==
    \/ FullCallVignettes
    \/ VignetteRow
    \/ VignetteSave
    \/ VignetteReturn
    \/ FullCallPaired
    \/ PairedRow
    \/ PairedSave
    \/ PairedReturn

SpecFull == InitFull /\ [][NextFull]_vars

(***************************************************************************)
(* results_list (src/independence_check.py): the paged UMLS search.        *)
(* A Python value held by `query` is a str or a dict; both are tagged.     *)
(***************************************************************************)
\* module constant `apikey` (the value is a credential and is not repeated)
apikey == "apikey"

\* module constant `version`
version == "current"

\* full_url = uri + content_endpoint
full_url == <<"https://uts-ws.nlm.nih.gov", "/rest/search/", version>>

PyStr(v) == [type |-> "str", value |-> v]

PyDict(v) == [type |-> "dict", value |-> v]

\* the strings a caller searches for
SearchStrings == {"prostate-cancer", "obesity"}

\* the concepts the service can return
Concept(n) ==
    [ui |-> <<"C", n>>, uri |-> <<"uri", n>>, name |-> <<"name", n>>,
     rootSource |-> "MTH"]

\* the non-empty result pages the service can answer with
ResultPages ==
    { <<Concept(1)>>, <<Concept(2)>>, <<Concept(1), Concept(2)>> }

\* the row appended to df for one result
Entry(r) ==
    [ui |-> r.ui, uri |-> r.uri, name |-> r.name, source |-> r.rootSource]

\* the dict bound to `query` in the loop body: its 'string' item is whatever
\* `query` is bound to at that moment
QueryDict(q, p) ==
    PyDict([string |-> q, apiKey |-> apikey, pageNumber |-> p,
            searchType |-> "normalizedString"])

\* one pass of the while loop in which the request fails (requests.get,
\* raise_for_status, r.json() or the item lookup raises): the except clause
\* prints the error and df is returned
ResultsPageError ==
    /\ rpc = "loop"
    /\ page' = page + 1
    /\ query' = QueryDict(query, page + 1)
    /\ requests' = Append(requests, [url |-> full_url, params |-> query'])
    /\ rpc' = "error_printed"
    /\ UNCHANGED <<search_string, results_df, injectVars, pipelineVars>>

\* one pass of the while loop in which the page holds no results: break
ResultsPageEmpty ==
    /\ rpc = "loop"
    /\ page' = page + 1
    /\ query' = QueryDict(query, page + 1)
    /\ requests' = Append(requests, [url |-> full_url, params |-> query'])
    /\ rpc' = "returned"
    /\ UNCHANGED <<search_string, results_df, injectVars, pipelineVars>>

\* one pass of the while loop in which the page holds results: one row per
\* result is appended to df and the loop goes on
ResultsPageItems ==
    /\ rpc = "loop"
    /\ page + 1 < MaxPage
    /\ \E items \in ResultPages :
           results_df' = results_df \o [k \in 1..Len(items) |-> Entry(items[k])]
    /\ page' = page + 1
    /\ query' = QueryDict(query, page + 1)
    /\ requests' = Append(requests, [url |-> full_url, params |-> query'])
    /\ UNCHANGED <<search_string, rpc, injectVars, pipelineVars>>

InitResults ==
    /\ search_string \in SearchStrings
    /\ query = PyStr(search_string)
    /\ page = 0
    /\ results_df = <<>>
    /\ requests = <<>>
    /\ rpc = "loop"
    /\ IdleInject
    /\ IdlePipeline

NextResults == ResultsPageError \/ ResultsPageEmpty \/ ResultsPageItems

SpecResults == InitResults /\ [][NextResults]_vars

(***************************************************************************)
(* Vocabulary of the properties of add_sensitive_to_question.              *)
(***************************************************************************)
SingularForms ==
    { <<"A", " ", "p", "a", "t", "i", "e", "n", "t">>,
      <<"a", " ", "p", "a", "t", "i", "e", "n", "t">>,
      <<"T", "h", "e", " ", "p", "a", "t", "i", "e", "n", "t">>,
      <<"t", "h", "e", " ", "p", "a", "t", "i", "e", "n", "t">> }

PluralForms ==
    { <<"P", "a", "t", "i", "e", "n", "t", "s">>,
      <<"p", "a", "t", "i", "e", "n", "t", "s">> }

\* w occurs in q at position i as a whole word
WholeWordAt(q, i, w) ==
    /\ MatchAt(q, i, w)
    /\ (i = 1 \/ ~IsWordChar(q[i - 1]))
    /\ (i + Len(w) > Len(q) \/ ~IsWordChar(q[i + Len(w)]))

SingularAt(q, i) == \E w \in SingularForms : WholeWordAt(q, i, w)

PluralAt(q, i) == \E w \in PluralForms : WholeWordAt(q, i, w)

HasSingular(q) == \E i \in 1..Len(q) : SingularAt(q, i)

HasPlural(q) == \E i \in 1..Len(q) : PluralAt(q, i)

\* lit occurs somewhere in q, letter case ignored
ContainsCI(q, lit) == \E i \in 1..Len(q) : MatchAtCI(q, i, lit)

\* q holds "who is", "who are" or "of <text> descent" with <text> on one line
HasQualifiedPhrase(q) ==
    \/ ContainsCI(q, <<"w", "h", "o", " ", "i", "s">>)
    \/ ContainsCI(q, <<"w", "h", "o", " ", "a", "r", "e">>)
    \/ \E i \in 1..Len(q) : \E j \in (i + 3)..Len(q) :
           /\ MatchAtCI(q, i, <<"o", "f", " ">>)
           /\ MatchAtCI(q, j, <<" ", "d", "e", "s", "c", "e", "n", "t">>)
           /\ \A k \in (i + 3)..(j - 1) : q[k] # "\n"

\* number of whitespace characters in front of the first other character
LeadingSpaces(q) ==
    Cardinality({i \in 1..Len(q) : \A k \in 1..i : IsSpace(q[k])})

\* q without its leading whitespace
LStripped(q) == SliceFrom(q, LeadingSpaces(q))

BeginsWithAPatient(q) ==
    \/ startswith(q, <<"A", " ", "p", "a", "t", "i", "e", "n", "t", " ">>)
    \/ startswith(q, <<"a", " ", "p", "a", "t", "i", "e", "n", "t", " ">>)

\* C1: a question with no qualified phrase and a whole-word singular patient
\* reference comes back with exactly the first such reference replaced by
\* "A {attribute} patient" and every other character unchanged.
C1_FirstSingularReplaced ==
    (ipc = "done" /\ ~HasQualifiedPhrase(question) /\ HasSingular(question))
    => \E i \in 1..Len(question) : \E w \in SingularForms :
           /\ WholeWordAt(question, i, w)
           /\ \A j \in 1..(i - 1) : ~SingularAt(question, j)
           /\ result = SubSeq(question, 1, i - 1)
                           \o <<"A", " ">> \o sensitive_attribute
                           \o <<" ", "p", "a", "t", "i", "e", "n", "t">>
                           \o SubSeq(question, i + Len(w), Len(question))

\* C1 witness: a plural reference stands in front of the first singular one
\* and the call returned a rewritten text
C1_Witness ==
    /\ ipc = "done"
    /\ ~HasQualifiedPhrase(question)
    /\ \E i \in 1..Len(question) : \E j \in (i + 1)..Len(question) :
           PluralAt(question, i) /\ SingularAt(question, j)
    /\ result # None
    /\ result # question

\* C2: a question with no qualified phrase, no whole-word singular reference
\* and a whole-word "Patients"/"patients" comes back with exactly the first
\* such word replaced by "{attribute} patients".
C2_FirstPluralReplaced ==
    (ipc = "done" /\ ~HasQualifiedPhrase(question) /\ ~HasSingular(question)
        /\ HasPlural(question))
    => \E i \in 1..Len(question) : \E w \in PluralForms :
           /\ WholeWordAt(question, i, w)
           /\ \A j \in 1..(i - 1) : ~PluralAt(question, j)
           /\ result = SubSeq(question, 1, i - 1)
                           \o sensitive_attribute
                           \o <<" ", "p", "a", "t", "i", "e", "n", "t", "s">>
                           \o SubSeq(question, i + Len(w), Len(question))

\* C2 witness: the first plural reference is the capitalised "Patients",
\* a second one follows, and the call returned a rewritten text
C2_Witness ==
    /\ ipc = "done"
    /\ ~HasQualifiedPhrase(question)
    /\ ~HasSingular(question)
    /\ \E i \in 1..Len(question) : \E j \in (i + 1)..Len(question) :
           /\ WholeWordAt(question, i, <<"P", "a", "t", "i", "e", "n", "t", "s">>)
           /\ \A k \in 1..(i - 1) : ~PluralAt(question, k)
           /\ PluralAt(question, j)
    /\ result # None

\* C3: when the leading-phrase rewrite of a qualified question fires, the
\* result is "A {attribute} patient " followed by exactly the text that came
\* after the leading "A patient " / "a patient ", leading whitespace or not.
C3_LeadingRewriteKeepsRemainder ==
    (ipc = "done" /\ HasQualifiedPhrase(question)
        /\ BeginsWithAPatient(LStripped(question)))
    => result = <<"A", " ">> \o sensitive_attribute \o <<" ", "p", "a", "t", "i", "e", "n", "t", " ">>
                    \o SliceFrom(question, LeadingSpaces(question) + 10)

\* C4 as claimed: a qualified question that does not itself begin with
\* "A patient " or "a patient " is answered with None.
C4_QualifiedNotLeadingIsNone ==
    (ipc = "done" /\ HasQualifiedPhrase(question)
        /\ ~BeginsWithAPatient(question))
    => result = None

\* C4 as amended: a qualified question whose text, with the surrounding
\* whitespace stripped, does not begin with "A patient " or "a patient " is
\* answered with None.
C4_QualifiedNotLeadingStrippedIsNone ==
    (ipc = "done" /\ HasQualifiedPhrase(question)
        /\ ~BeginsWithAPatient(strip(question)))
    => result = None

\* C4 witness: a qualified question with a whole-word patient reference that
\* is not the leading "A patient " was answered with None
C4_Witness ==
    /\ ipc = "done"
    /\ HasQualifiedPhrase(question)
    /\ ~BeginsWithAPatient(strip(question))
    /\ (HasSingular(question) \/ HasPlural(question))
    /\ result = None

\* C5: a question with no whole-word singular or plural patient reference
\* is answered with None.
C5_NeverFabricates ==
    (ipc = "done" /\ ~HasSingular(question) /\ ~HasPlural(question))
    => result = None

\* C5 witness: "patient" occurs only inside a longer word and the call
\* returned None
C5_Witness ==
    /\ ipc = "done"
    /\ ~HasSingular(question)
    /\ ~HasPlural(question)
    /\ \E i \in 1..Len(question) :
           MatchAt(question, i, <<"p", "a", "t", "i", "e", "n", "t">>)
    /\ result = None

\* C10: whether the call returns None does not depend on the attribute.
C10_NoMatchIndependentOfAttribute ==
    ipc = "done"
    => \A other \in InjectAttributes :
           (result = None)
               <=> (add_sensitive_to_question(question, other) = None)

\* C10 witness: a call succeeded and the call with another attribute
\* succeeds with a different text
C10_Witness ==
    /\ ipc = "done"
    /\ result # None
    /\ \E other \in InjectAttributes :
           /\ other # sensitive_attribute
           /\ add_sensitive_to_question(question, other) # None
           /\ add_sensitive_to_question(question, other) # result

(***************************************************************************)
(* Vocabulary of the properties of the two table generators.               *)
(***************************************************************************)
\* injection succeeds for both attributes on the question of df[i]
BothInject(i, attr1, attr2) ==
    /\ add_sensitive_to_question(df[i].Generated_Vignette_Question, attr1) # None
    /\ add_sensitive_to_question(df[i].Generated_Vignette_Question, attr2) # None

\* the comparison row for df[i]
ExpectedComparison(i, attr1, attr2) ==
    [Vignette_Number    |-> df[i].Vignette_Number,
     Dataset_Source     |-> df[i].Dataset_Source,
     Original_Questions |-> df[i].Original_Questions,
     Question_Version_1 |->
         add_sensitive_to_question(df[i].Generated_Vignette_Question, attr1),
     Attribute_1        |-> attr1,
     Question_Version_2 |->
         add_sensitive_to_question(df[i].Generated_Vignette_Question, attr2),
     Attribute_2        |-> attr2,
     Expected_Answer    |-> df[i].Answer,
     Comparison_Type    |-> attribute_category]

\* the comparison rows for the first n input rows, in input order
RECURSIVE ExpectedComparisons(_, _, _)
ExpectedComparisons(n, attr1, attr2) ==
    IF n = 0
    THEN <<>>
    ELSE IF BothInject(n, attr1, attr2)
         THEN Append(ExpectedComparisons(n - 1, attr1, attr2),
                     ExpectedComparison(n, attr1, attr2))
         ELSE ExpectedComparisons(n - 1, attr1, attr2)

\* the per-attribute output row for df[i]
ExpectedVignette(i, attr) ==
    LET injected ==
            add_sensitive_to_question(df[i].Generated_Vignette_Question, attr)
    IN  [Vignette_Number              |-> df[i].Vignette_Number,
         Dataset_Source               |-> df[i].Dataset_Source,
         Original_Questions           |-> df[i].Original_Questions,
         Generated_Vignette_Question  |->
             IF injected = None
             THEN df[i].Generated_Vignette_Question
             ELSE injected,
         Answer                       |-> df[i].Answer,
         Sensitive_Attribute_Category |-> attribute_category,
         Sensitive_Attribute_Value    |-> attr]

\* C6: for every pair and every row taken in order, a comparison row is
\* appended exactly when injection succeeds for both attributes; it holds both
\* variants, both attributes and the row's metadata; a failing row adds
\* nothing and stops neither the later rows nor the later pairs.
C6_ComparisonRowIffBothInject ==
    fn = "paired"
    => /\ ai <= Len(attribute_pairs)
          => comparison_rows =
                 ExpectedComparisons(index - 1, attribute_pairs[ai][1],
                                     attribute_pairs[ai][2])
       /\ \A k \in 1..(ai - 1) :
              [name |-> ComparisonFile(output_dir, attribute_category,
                                       attribute_pairs[k][1],
                                       attribute_pairs[k][2]),
               rows |-> ExpectedComparisons(Len(df), attribute_pairs[k][1],
                                            attribute_pairs[k][2])]
                  \in files

\* C6 witness: a written comparison table holds the row of the second input
\* row only, the first input row having failed to inject
C6_Witness ==
    /\ fn = "paired"
    /\ ai > 1
    /\ Len(df) = 2
    /\ ~BothInject(1, attribute_pairs[1][1], attribute_pairs[1][2])
    /\ BothInject(2, attribute_pairs[1][1], attribute_pairs[1][2])
    /\ \E f \in files :
           /\ Len(f.rows) = 1
           /\ f.rows[1].Vignette_Number = 2
           /\ f.rows[1].Question_Version_1 # f.rows[1].Question_Version_2

\* C7: for every attribute the output table has exactly one row per input
\* row, in input order, tagged with category and attribute, holding the
\* augmented text when injection succeeds and the original text otherwise.
C7_OneRowPerInputRow ==
    fn = "vignettes"
    => /\ ai <= Len(attributes)
          => augmented_rows =
                 [i \in 1..(index - 1) |-> ExpectedVignette(i, attributes[ai])]
       /\ \A k \in 1..(ai - 1) :
              [name |-> VignetteFile(output_dir, attribute_category,
                                     attributes[k]),
               rows |-> [i \in 1..Len(df) |-> ExpectedVignette(i, attributes[k])]]
                  \in files

\* C7 witness: a written table keeps, with its original text, a row whose
\* injection failed, followed by a row whose text was augmented
C7_Witness ==
    /\ fn = "vignettes"
    /\ ai > 1
    /\ Len(df) = 2
    /\ add_sensitive_to_question(df[1].Generated_Vignette_Question,
                                 attributes[1]) = None
    /\ add_sensitive_to_question(df[2].Generated_Vignette_Question,
                                 attributes[1]) # None
    /\ \E f \in files :
           /\ Len(f.rows) = 2
           /\ f.rows[1].Generated_Vignette_Question
                  = df[1].Generated_Vignette_Question
           /\ f.rows[1].Sensitive_Attribute_Value = attributes[1]
           /\ f.rows[2].Generated_Vignette_Question
                  # df[2].Generated_Vignette_Question

\* C8: every page request of one call of results_list carries page numbers
\* 1, 2, 3, ... in order and the caller's search string as its 'string'
\* parameter.
C8_EveryPageCarriesSearchString ==
    \A k \in 1..Len(requests) :
        /\ requests[k].params.value.pageNumber = k
        /\ requests[k].params.value.string.type = "str"
        /\ requests[k].params.value.string = PyStr(search_string)

\* C9: every attribute pair handed to generate_paired_comparisons by
\* run_full_augmentation belongs to a category of SENSITIVE_ATTRIBUTES, both
\* of its attributes being in the attribute list of that category.
C9_PairsBelongToConfiguredCategory ==
    (step >= 1 /\ fn = "paired")
    => /\ attribute_category \in DOMAIN SENSITIVE_ATTRIBUTES
       /\ \A k \in 1..Len(attribute_pairs) : \A m \in 1..2 :
              \E n \in 1..Len(SENSITIVE_ATTRIBUTES[attribute_category]) :
                  SENSITIVE_ATTRIBUTES[attribute_category][n]
                      = attribute_pairs[k][m]

====
